---- MODULE Spec2Model ----
(***************************************************************************)
(* A model of the LC-3 simulator of src/LC3.c: the file-scope machine      *)
(* state, main's argument loop and fetch/execute loop, loadFile, init and  *)
(* the sixteen instruction handlers.                                       *)
(*                                                                         *)
(* Words are int16_t values, so every value of the model is an integer in  *)
(* -32768..32767 (0x8000..0xFFFF are the negative ones).  The array        *)
(* memory[65536] is indexed by int16_t expressions: an index below 0 lies  *)
(* outside the array, which is undefined behaviour; the model gives such   *)
(* an access every outcome a build produces (see OobValues, store).        *)
(***************************************************************************)
EXTENDS Integers, Sequences, FiniteSets, TLC

VARIABLES
    argv,       \* the object files named on the command line, in order
    argi,       \* number of files loaded so far (main's i - 1)
    mcr,        \* int16_t mcr
    memory,     \* int16_t memory[65536]: the non-zero cells, index |-> word
    regs,       \* int16_t regs[REG_COUNT]
    pc,         \* int16_t pc
    ir,         \* int16_t ir
    psr,        \* the bit fields p, n, z of psr
    display,    \* display.status, display.data
    below,      \* the words that writes below memory[0] have left there
                \* (index |-> word)
    at,         \* position of the process in main
    exitStatus, \* main's return value, -1 while the process runs
    out,        \* the characters printed to stdout by the loop, in order
    cycles,     \* instructions fetched so far
    lastOp,     \* handler run by the latest dispatch ("none" before the first)
    lastTgt,    \* where the latest store landed / the latest load read from
    lastVal,    \* the word the latest store wrote / the latest load read
    lastIdx,    \* the index of the latest memory[...] expression evaluated
    stray,      \* some memory[...] so far had its index outside the array
    nDDR,       \* stores routed to DDR so far
    nPend,      \* stores so far that left display.status = DISPLAY_SET
    stored,     \* the word last stored through the else branch of the store
                \* handlers at each 16-bit address (address |-> word)
    saved       \* the address after the latest JSR, in a set, while R7 is as
                \* that JSR left it; empty otherwise

vars == <<argv, argi, mcr, memory, regs, pc, ir, psr, display, below, at, exitStatus,
          out, cycles, lastOp, lastTgt, lastVal, lastIdx, stray, nDDR, nPend,
          stored, saved>>

machine == <<mcr, memory, regs, pc, ir, psr, display>>
\* the storage below the array and the history variables
hist == <<below, lastOp, lastTgt, lastVal, lastIdx, stray, nDDR, nPend, stored, saved>>

(***************************************************************************)
(* Bounds of the model.                                                    *)
(***************************************************************************)
\* instructions a run may fetch before the exploration stops following it
MaxCycles == 4
\* words of an object file after its start address
ProgLen == 3
\* how many words below memory[0] the other objects of the program may lie:
\* they take 15 words, and the array is aligned to 16
NearWords == 32

(***************************************************************************)
(* Integer types of the program.                                           *)
(***************************************************************************)
\* conversion of an int to int16_t (gcc: reduction modulo 2^16)
Int16(x) == ((x + 32768) % 65536) - 32768

\* the low 16 bits of a word read as an unsigned number
U16(x) == x % 65536

\* bit k of the two's complement representation of x
Bit(x, k) == (x \div (2 ^ k)) % 2

\* (x << (32 - w)) >> (32 - w) on a 32-bit int: the low w bits, sign-extended
SignExtLow(x, w) ==
    LET u == x % (2 ^ w)
    IN  IF u >= 2 ^ (w - 1) THEN u - 2 ^ w ELSE u

RECURSIVE AndBits(_, _, _)
AndBits(x, y, k) ==
    IF k = 0 THEN 0
    ELSE (x % 2) * (y % 2) + 2 * AndBits(x \div 2, y \div 2, k - 1)

\* a & b on two int16_t operands, converted back to int16_t
And16(a, b) == Int16(AndBits(U16(a), U16(b), 16))

\* ~a on an int16_t operand
Not16(a) == Int16(-a - 1)

(***************************************************************************)
(* The decoding macros, lines 16-28.                                       *)
(***************************************************************************)
OPCODE(instr) == (instr \div 4096) % 16
REG1(instr) == (instr \div 512) % 8
REG2(instr) == (instr \div 64) % 8
REG3(instr) == instr % 8
IMMBIT(instr) == (instr % 64) \div 32
\* IMMVAL without the sign extension
IMMVAL_zeroExt(instr) == instr % 32
\* bits 4:0, sign-extended
IMMVAL(instr) == SignExtLow(instr, 5)
PCOFFSET11(instr) == SignExtLow(instr, 11)
PCOFFSET9(instr) == SignExtLow(instr, 9)
PCOFFSET6(instr) == SignExtLow(instr, 6)
BRN(instr) == (instr \div 2048) % 2
BRZ(instr) == (instr \div 1024) % 2
BRP(instr) == (instr \div 512) % 2
TRPVECT8(instr) == SignExtLow(instr, 8)

REG_COUNT == 8
ADD_OP == 1
AND_OP == 5
LD_OP == 2
LDI_OP == 10
LDR_OP == 6
BR_OP == 0
ST_OP == 3
STI_OP == 11
STR_OP == 7
LEA_OP == 14
JSR_OP == 4
RET_OP == 12
TRAP_OP == 15

DSR == Int16(65028)
DISPLAY_READY == 32768
DISPLAY_SET == 0
DDR == Int16(65030)
MCR_ADRESS == Int16(65534)
MCR_POWER(m) == Bit(m, 15)

\* the opcodes main's switch has a case for
Dispatched ==
    {ADD_OP, AND_OP, LD_OP, LDI_OP, LDR_OP, BR_OP, ST_OP, STI_OP, STR_OP,
     LEA_OP, JSR_OP, RET_OP, TRAP_OP}

(***************************************************************************)
(* The array memory[65536].                                                *)
(***************************************************************************)
\* the valid indexes of the array
MemIndex == 0 .. 65535

\* memory[i] for a valid index i
Mem(i) == IF i \in DOMAIN memory THEN memory[i] ELSE 0

\* the array after memory[i] = v, for a valid index i
MemSet(m, i, v) ==
    LET d == IF v = 0 THEN DOMAIN m \ {i} ELSE DOMAIN m \cup {i}
    IN  [j \in d |-> IF j = i THEN v ELSE m[j]]

\* What a read of memory[i] with i outside the array may yield when it does
\* not fault: the bytes of whatever object lies there.
OobValues == {0, -1}

\* the values the expression memory[i] may have: outside the array, also
\* the word an earlier write left at that index
MemRead(i) ==
    IF i \in MemIndex THEN {Mem(i)}
    ELSE OobValues \cup (IF i \in DOMAIN below THEN {below[i]} ELSE {})

(***************************************************************************)
(* The inputs: the object files named on the command line.                 *)
(***************************************************************************)
\* The words an object file is made of: one instruction per handler and per
\* form, the two opcodes without a handler, NOT, and the words that are the
\* device addresses when used as pointers (and TRAP instructions when fetched).
ObjWords ==
    { Int16(w) : w \in
        { 4735,     \* x127F  ADD  R1, R1, #-1
          4673,     \* x1241  ADD  R1, R1, R1
          21089,    \* x5261  AND  R1, R1, #1
          21575,    \* x5447  AND  R2, R1, R7
          37503,    \* x927F  NOT  R1, R1
          1025,     \* x0401  BRz  #1
          3585,     \* x0E01  BRnzp #1
          8704,     \* x2200  LD   R1, #0
          41472,    \* xA200  LDI  R1, #0
          25150,    \* x623E  LDR  R1, R0, #-2
          12800,    \* x3200  ST   R1, #0
          45568,    \* xB200  STI  R1, #0
          45569,    \* xB201  STI  R1, #1
          29246,    \* x723E  STR  R1, R0, #-2
          29234,    \* x7232  STR  R1, R0, #-14
          58367,    \* xE3FF  LEA  R1, #-1
          18433,    \* x4801  JSR  #1
          49600,    \* xC1C0  RET
          65030,    \* xFE06  TRAP x06, the address DDR
          65028,    \* xFE04  TRAP x04, the address DSR
          65534,    \* xFFFE  TRAP xFE, the address MCR
          32768,    \* x8000  RTI (opcode 8)
          53248 } } \* xD000  reserved (opcode 13)

\* the start addresses of the object files
StartAddrs == {12288}     \* x3000

ObjFiles ==
    { [start |-> s, words |-> w] : s \in StartAddrs, w \in [1 .. ProgLen -> ObjWords] }

\* The object files of the loading cases: two distinct words, and start
\* addresses that make two files overlap (x3000, x3001), run a file across
\* x7FFF/x8000 (x7FFE) and across xFFFF/x0000 (xFFFF).
LoadWords == {4735, Int16(53248)}     \* x127F  ADD R1, R1, #-1;  xD000
LoadStarts == {12288, 12289, 32766, -1}

LoadFiles ==
    { [start |-> s, words |-> w] : s \in LoadStarts, w \in [1 .. ProgLen -> LoadWords] }

\* the command lines: no file (usage error), one object file, or two
ArgLists ==
    {<< >>} \cup { <<f>> : f \in ObjFiles \cup LoadFiles }
            \cup { <<f, g>> : f \in LoadFiles, g \in LoadFiles }

(***************************************************************************)
(* Process start: objects of static storage duration are zero.             *)
(***************************************************************************)
Init ==
    /\ argv \in ArgLists
    /\ argi = 0
    /\ mcr = 0
    /\ memory = << >>
    /\ regs = [r \in 0 .. REG_COUNT - 1 |-> 0]
    /\ pc = 0
    /\ ir = 0
    /\ psr = [p |-> 0, n |-> 0, z |-> 0]
    /\ display = [status |-> 0, data |-> 0]
    /\ below = << >>
    /\ at = "load"
    /\ exitStatus = -1
    /\ out = << >>
    /\ cycles = 0
    /\ lastOp = "none"
    /\ lastTgt = "none"
    /\ lastVal = 0
    /\ lastIdx = 0
    /\ stray = FALSE
    /\ nDDR = 0
    /\ nPend = 0
    /\ stored = << >>
    /\ saved = {}

(***************************************************************************)
(* main, lines 110-123, and loadFile.                                      *)
(***************************************************************************)
\* memory[i] with i outside the array faults: the process is killed
fault(i) ==
    /\ at' = "crash"
    /\ lastIdx' = i
    /\ stray' = TRUE
    /\ UNCHANGED <<argv, argi, exitStatus, out, cycles>>
    /\ UNCHANGED machine
    /\ UNCHANGED <<below, lastOp, lastTgt, lastVal, nDDR, nPend, stored, saved>>

\* The array after fread has stored the words w at &memory[start] and the
\* loop has swapped their bytes: word i goes to the element start + i - 1,
\* counted from memory[0] without wrapping; the words of a negative start
\* that fall below memory[0] do not reach the array.
RECURSIVE Place(_, _, _, _)
Place(m, start, w, i) ==
    IF i > Len(w) THEN m
    ELSE IF start + i - 1 \in MemIndex
    THEN Place(MemSet(m, start + i - 1, w[i]), start, w, i + 1)
    ELSE Place(m, start, w, i + 1)

\* What the words of file f stored below memory[0] do when the write does
\* not fault: they land on storage the program never reads or, just below
\* the array, on one of its other objects (mcr and display are left out:
\* init assigns them before they are read).
loadStray(f) ==
    LET near == { i \in 1 .. Len(f.words) :
                    f.start + i - 1 < 0 /\ f.start + i - 1 >= -NearWords }
    IN  \/ pc' = f.start /\ UNCHANGED <<regs, ir, psr>>
        \/ \E i \in near :
              LET v == f.words[i]
              IN  \/ pc' = v /\ UNCHANGED <<regs, ir, psr>>
                  \/ /\ pc' = f.start
                     /\ \E k \in 0 .. REG_COUNT - 1 : regs' = [regs EXCEPT ![k] = v]
                     /\ UNCHANGED <<ir, psr>>
                  \/ pc' = f.start /\ ir' = v /\ UNCHANGED <<regs, psr>>
                  \/ /\ pc' = f.start
                     /\ psr' = [p |-> Bit(v, 13), n |-> Bit(v, 14), z |-> Bit(v, 15)]
                     /\ UNCHANGED <<regs, ir>>

\* one pass of main's for loop: loadFile(argv[i])
loadFile ==
    /\ at = "load"
    /\ argi < Len(argv)
    /\ LET f == argv[argi + 1]
       IN  \/ /\ memory' = Place(memory, f.start, f.words, 1)
              /\ loadStray(f)
              /\ argi' = argi + 1
              /\ lastIdx' = IF f.start < 0 THEN f.start ELSE lastIdx
              /\ stray' = (stray \/ f.start < 0)
              /\ LET low == { i \in f.start .. -1 : i - f.start < Len(f.words) }
                 IN  below' = [i \in DOMAIN below \cup low |->
                                 IF i \in low THEN f.words[i - f.start + 1]
                                 ELSE below[i]]
              /\ UNCHANGED <<argv, mcr, display, at, exitStatus, out, cycles>>
              /\ UNCHANGED <<lastOp, lastTgt, lastVal, nDDR, nPend, stored, saved>>
           \/ /\ f.start < 0
              /\ fault(f.start)

\* argc < 2: the usage message, return 1
usage ==
    /\ at = "load"
    /\ Len(argv) = 0
    /\ at' = "exit"
    /\ exitStatus' = 1
    /\ UNCHANGED <<argv, argi, out, cycles>>
    /\ UNCHANGED machine
    /\ UNCHANGED hist

\* init() without its assignment to display.status
init_statusKept ==
    /\ at = "load"
    /\ Len(argv) >= 1
    /\ argi = Len(argv)
    /\ display' = [display EXCEPT !.data = 0]
    /\ psr' = [psr EXCEPT !.z = 1]
    /\ mcr' = Int16(32768)
    /\ at' = "loop"
    /\ UNCHANGED <<argv, argi, memory, regs, pc, ir, exitStatus, out, cycles>>
    /\ UNCHANGED hist

\* init(), once every file is loaded
init ==
    /\ at = "load"
    /\ Len(argv) >= 1
    /\ argi = Len(argv)
    /\ display' = [status |-> Int16(32768), data |-> 0]
    /\ psr' = [psr EXCEPT !.z = 1]
    /\ mcr' = Int16(32768)
    /\ at' = "loop"
    /\ UNCHANGED <<argv, argi, memory, regs, pc, ir, exitStatus, out, cycles>>
    /\ UNCHANGED hist

(***************************************************************************)
(* The fetch/execute loop, lines 127-191.                                  *)
(***************************************************************************)
\* loopTop without the display drain
loopTop_noDrain ==
    /\ at = "loop"
    /\ \/ /\ MCR_POWER(mcr) = 0
          /\ at' = "exit"
          /\ exitStatus' = 0
       \/ /\ MCR_POWER(mcr) = 1
          /\ cycles < MaxCycles
          /\ at' = "fetch"
          /\ UNCHANGED exitStatus
    /\ UNCHANGED <<argv, argi, mcr, memory, regs, pc, ir, psr, display, out, cycles>>
    /\ UNCHANGED hist

\* loopTop with a drain that leaves display.status as it is
loopTop_statusKept ==
    /\ at = "loop"
    /\ \/ /\ MCR_POWER(mcr) = 0
          /\ at' = "exit"
          /\ exitStatus' = 0
          /\ UNCHANGED <<display, out>>
       \/ /\ MCR_POWER(mcr) = 1
          /\ cycles < MaxCycles
          /\ at' = "fetch"
          /\ UNCHANGED exitStatus
          /\ IF display.status = DISPLAY_SET
             THEN /\ out' = Append(out, display.data % 256)
                  /\ UNCHANGED display
             ELSE UNCHANGED <<display, out>>
    /\ UNCHANGED <<argv, argi, mcr, memory, regs, pc, ir, psr, cycles>>
    /\ UNCHANGED hist

\* The while condition and the display drain. A run is followed for MaxCycles
\* instructions.
loopTop ==
    /\ at = "loop"
    /\ \/ /\ MCR_POWER(mcr) = 0
          /\ at' = "exit"
          /\ exitStatus' = 0
          /\ UNCHANGED <<display, out>>
       \/ /\ MCR_POWER(mcr) = 1
          /\ cycles < MaxCycles
          /\ at' = "fetch"
          /\ UNCHANGED exitStatus
          /\ IF display.status = DISPLAY_SET
             THEN /\ out' = Append(out, display.data % 256)
                  /\ display' = [display EXCEPT !.status = Int16(DISPLAY_READY)]
             ELSE UNCHANGED <<display, out>>
    /\ UNCHANGED <<argv, argi, mcr, memory, regs, pc, ir, psr, cycles>>
    /\ UNCHANGED hist

\* ir = memory[pc]; pc++
fetch ==
    /\ at = "fetch"
    /\ \/ /\ \E w \in MemRead(pc) : ir' = w
          /\ pc' = Int16(pc + 1)
          /\ cycles' = cycles + 1
          /\ at' = "exec"
          /\ lastIdx' = pc
          /\ stray' = (stray \/ pc \notin MemIndex)
          /\ UNCHANGED <<argv, argi, mcr, memory, regs, psr, display, exitStatus, out>>
          /\ UNCHANGED <<below, lastOp, lastTgt, lastVal, nDDR, nPend, stored, saved>>
       \/ /\ pc \notin MemIndex
          /\ fault(pc)

\* the default case returning 0
unrecognized_status0 ==
    /\ at = "exec"
    /\ OPCODE(ir) \notin Dispatched
    /\ at' = "exit"
    /\ exitStatus' = 0
    /\ UNCHANGED <<argv, argi, out, cycles>>
    /\ UNCHANGED machine
    /\ UNCHANGED hist

\* the default case of the switch: the message on stderr, return 1
unrecognized ==
    /\ at = "exec"
    /\ OPCODE(ir) \notin Dispatched
    /\ at' = "exit"
    /\ exitStatus' = 1
    /\ UNCHANGED <<argv, argi, out, cycles>>
    /\ UNCHANGED machine
    /\ UNCHANGED hist

(***************************************************************************)
(* The condition codes.                                                    *)
(***************************************************************************)
\* updatePSR_CC without its case for zero
updatePSR_CC_noZero(val) ==
    IF val < 0 THEN [p |-> 0, n |-> 1, z |-> 0]
    ELSE [p |-> 1, n |-> 0, z |-> 0]

updatePSR_CC(val) ==
    IF val < 0 THEN [p |-> 0, n |-> 1, z |-> 0]
    ELSE IF val = 0 THEN [p |-> 0, n |-> 0, z |-> 1]
    ELSE IF val > 0 THEN [p |-> 1, n |-> 0, z |-> 0]
    ELSE psr

(***************************************************************************)
(* The handlers.  Each is dispatched by main's switch on OPCODE(ir) and    *)
(* returns to the while condition.                                         *)
(***************************************************************************)
\* what stays as it is in a handler that writes nothing but registers, CC, pc
returns(op) ==
    /\ at' = "loop"
    /\ lastOp' = op
    /\ saved' = IF op = "jsr" THEN {Int16(lastIdx + 1)}
                ELSE IF regs'[7] # regs[7] THEN {}
                ELSE saved
    /\ UNCHANGED <<argv, argi, exitStatus, out, cycles>>

\* a handler that makes no routed access
plain(op) ==
    /\ returns(op)
    /\ UNCHANGED <<below, lastTgt, lastVal, lastIdx, stray, nDDR, nPend, stored>>

addImm ==
    /\ at = "exec"
    /\ OPCODE(ir) = ADD_OP
    /\ IMMBIT(ir) = 1
    /\ LET dest_reg == REG1(ir)
           src_reg == REG2(ir)
           imm_val == IMMVAL(ir)
           sum == Int16(regs[src_reg] + imm_val)
       IN  /\ regs' = [regs EXCEPT ![dest_reg] = sum]
           /\ psr' = updatePSR_CC(sum)
    /\ plain("addImm")
    /\ UNCHANGED <<mcr, memory, pc, ir, display>>

addRegs ==
    /\ at = "exec"
    /\ OPCODE(ir) = ADD_OP
    /\ IMMBIT(ir) = 0
    /\ LET dest_reg == REG1(ir)
           src_reg1 == REG2(ir)
           src_reg2 == REG3(ir)
           sum == Int16(regs[src_reg1] + regs[src_reg2])
       IN  /\ regs' = [regs EXCEPT ![dest_reg] = sum]
           /\ psr' = updatePSR_CC(sum)
    /\ plain("addRegs")
    /\ UNCHANGED <<mcr, memory, pc, ir, display>>

andImm ==
    /\ at = "exec"
    /\ OPCODE(ir) = AND_OP
    /\ IMMBIT(ir) = 1
    /\ LET dest_reg == REG1(ir)
           src_reg1 == REG2(ir)
           imm_val == IMMVAL(ir)
           res == And16(regs[src_reg1], imm_val)
       IN  /\ regs' = [regs EXCEPT ![dest_reg] = res]
           /\ psr' = updatePSR_CC(res)
    /\ plain("andImm")
    /\ UNCHANGED <<mcr, memory, pc, ir, display>>

andRegs ==
    /\ at = "exec"
    /\ OPCODE(ir) = AND_OP
    /\ IMMBIT(ir) = 0
    /\ LET dest_reg == REG1(ir)
           src_reg1 == REG2(ir)
           src_reg2 == REG3(ir)
           res == And16(regs[src_reg1], regs[src_reg2])
       IN  /\ regs' = [regs EXCEPT ![dest_reg] = res]
           /\ psr' = updatePSR_CC(res)
    /\ plain("andRegs")
    /\ UNCHANGED <<mcr, memory, pc, ir, display>>

\* not() is defined but main's switch has no case that calls it: it is no
\* disjunct of Next.
not ==
    /\ at = "exec"
    /\ LET dest_reg == REG1(ir)
           src_reg == REG2(ir)
           res == Not16(regs[src_reg])
       IN  /\ regs' = [regs EXCEPT ![dest_reg] = res]
           /\ psr' = updatePSR_CC(res)
    /\ plain("not")
    /\ UNCHANGED <<mcr, memory, pc, ir, display>>

br ==
    /\ at = "exec"
    /\ OPCODE(ir) = BR_OP
    /\ LET n == BRN(ir)
           z == BRZ(ir)
           p == BRP(ir)
           pcoffset == PCOFFSET9(ir)
       IN  IF psr.n * n + psr.z * z + psr.p * p > 0
           THEN pc' = Int16(pc + pcoffset)
           ELSE pc' = pc
    /\ UNCHANGED <<mcr, memory, regs, ir, psr, display>>
    /\ plain("br")

\* The if-chain of ld, ldi and ldr on a source address: the words the read
\* may yield, each with the place it came from.
routed(a) ==
    IF a = DSR THEN {[val |-> display.status, tgt |-> "dsr"]}
    ELSE IF a = DDR THEN {[val |-> display.data, tgt |-> "ddr"]}
    ELSE IF a = MCR_ADRESS THEN {[val |-> mcr, tgt |-> "mcr"]}
    ELSE {[val |-> v, tgt |-> IF a \in MemIndex THEN "ram" ELSE "oob"] : v \in MemRead(a)}

\* the if-chain reaches memory[a] with a outside the array
strays(a) == a \notin {DSR, DDR, MCR_ADRESS} /\ a \notin MemIndex

\* the tail of a load handler: regs[dest_reg] = <word>; updatePSR_CC(regs[dest_reg])
\* (a: the address read, s: an earlier access of the handler left the array)
loads(op, dest_reg, a, r, s) ==
    /\ regs' = [regs EXCEPT ![dest_reg] = r.val]
    /\ psr' = updatePSR_CC(r.val)
    /\ returns(op)
    /\ lastTgt' = r.tgt
    /\ lastVal' = r.val
    /\ lastIdx' = IF r.tgt \in {"ram", "oob"} THEN a ELSE lastIdx
    /\ stray' = (stray \/ s \/ r.tgt = "oob")
    /\ UNCHANGED <<mcr, memory, pc, ir, display, below, nDDR, nPend, stored>>

ld ==
    /\ at = "exec"
    /\ OPCODE(ir) = LD_OP
    /\ LET dest_reg == REG1(ir)
           pcoffset == PCOFFSET9(ir)
           src_adress == Int16(pc + pcoffset)
       IN  \/ \E r \in routed(src_adress) : loads("ld", dest_reg, src_adress, r, FALSE)
           \/ strays(src_adress) /\ fault(src_adress)

ldi ==
    /\ at = "exec"
    /\ OPCODE(ir) = LDI_OP
    /\ LET dest_reg == REG1(ir)
           pcoffset == PCOFFSET9(ir)
           src_adress1 == Int16(pc + pcoffset)
       IN  \/ \E q \in routed(src_adress1) :
                LET src_adress2 == q.val
                IN  \/ \E r \in routed(src_adress2) :
                         loads("ldi", dest_reg, src_adress2, r, q.tgt = "oob")
                    \/ strays(src_adress2) /\ fault(src_adress2)
           \/ strays(src_adress1) /\ fault(src_adress1)

ldr ==
    /\ at = "exec"
    /\ OPCODE(ir) = LDR_OP
    /\ LET dest_reg == REG1(ir)
           base_reg == REG2(ir)
           pcoffset == PCOFFSET6(ir)
           scr_adress == Int16(regs[base_reg] + pcoffset)
       IN  \/ \E r \in routed(scr_adress) : loads("ldr", dest_reg, scr_adress, r, FALSE)
           \/ strays(scr_adress) /\ fault(scr_adress)

\* What memory[a] = v does when a lies outside the array and the access does
\* not fault: the two bytes land on whatever the build placed there, storage
\* the program never reads or, just below the array, one of its other objects
\* (psr holds p, n, z in bits 13, 14, 15 of its first word).
strayStore(a, v) ==
    \/ UNCHANGED machine
    \/ /\ a >= -NearWords
       /\ \/ mcr' = v /\ UNCHANGED <<memory, regs, pc, ir, psr, display>>
          \/ \E k \in 0 .. REG_COUNT - 1 :
                /\ regs' = [regs EXCEPT ![k] = v]
                /\ UNCHANGED <<mcr, memory, pc, ir, psr, display>>
          \/ pc' = v /\ UNCHANGED <<mcr, memory, regs, ir, psr, display>>
          \/ ir' = v /\ UNCHANGED <<mcr, memory, regs, pc, psr, display>>
          \/ /\ psr' = [p |-> Bit(v, 13), n |-> Bit(v, 14), z |-> Bit(v, 15)]
             /\ UNCHANGED <<mcr, memory, regs, pc, ir, display>>
          \/ /\ display' = [display EXCEPT !.status = v]
             /\ UNCHANGED <<mcr, memory, regs, pc, ir, psr>>
          \/ /\ display' = [display EXCEPT !.data = v]
             /\ UNCHANGED <<mcr, memory, regs, pc, ir, psr>>

\* the DDR branch without display.status = DISPLAY_SET
storeDDR_dataOnly(v) == display' = [display EXCEPT !.data = v]

\* the DDR branch of the store handlers
storeDDR(v) == display' = [data |-> v, status |-> DISPLAY_SET]

\* the if-chain of st, sti and str on a destination address
\* (s: an earlier access of the handler left the array)
stores(op, dest_adress, v, s) ==
    \/ /\ \/ /\ dest_adress = DSR
             /\ display' = [display EXCEPT !.status = v]
             /\ lastTgt' = "dsr"
             /\ UNCHANGED <<mcr, memory, regs, pc, ir, psr>>
          \/ /\ dest_adress = DDR
             /\ storeDDR(v)
             /\ lastTgt' = "ddr"
             /\ UNCHANGED <<mcr, memory, regs, pc, ir, psr>>
          \/ /\ dest_adress = MCR_ADRESS
             /\ mcr' = v
             /\ lastTgt' = "mcr"
             /\ UNCHANGED <<memory, regs, pc, ir, psr, display>>
          \/ /\ dest_adress \notin {DSR, DDR, MCR_ADRESS}
             /\ dest_adress \in MemIndex
             /\ memory' = MemSet(memory, dest_adress, v)
             /\ lastTgt' = "ram"
             /\ UNCHANGED <<mcr, regs, pc, ir, psr, display>>
          \/ /\ strays(dest_adress)
             /\ strayStore(dest_adress, v)
             /\ lastTgt' = "oob"
       /\ returns(op)
       /\ lastVal' = v
       /\ lastIdx' = IF dest_adress \in {DSR, DDR, MCR_ADRESS} THEN lastIdx ELSE dest_adress
       /\ stray' = (stray \/ s \/ strays(dest_adress))
       /\ nDDR' = IF dest_adress = DDR THEN nDDR + 1 ELSE nDDR
       /\ nPend' = IF display'.status = DISPLAY_SET THEN nPend + 1 ELSE nPend
       /\ below' = IF strays(dest_adress)
                   THEN [i \in DOMAIN below \cup {dest_adress} |->
                           IF i = dest_adress THEN v ELSE below[i]]
                   ELSE below
       /\ stored' = IF dest_adress \in {DSR, DDR, MCR_ADRESS} THEN stored
                    ELSE [u \in DOMAIN stored \cup {U16(dest_adress)} |->
                            IF u = U16(dest_adress) THEN v ELSE stored[u]]
    \/ strays(dest_adress) /\ fault(dest_adress)

st ==
    /\ at = "exec"
    /\ OPCODE(ir) = ST_OP
    /\ LET src_reg == REG1(ir)
           pcoffset == PCOFFSET9(ir)
           dest_adress == Int16(pc + pcoffset)
       IN  stores("st", dest_adress, regs[src_reg], FALSE)

sti ==
    /\ at = "exec"
    /\ OPCODE(ir) = STI_OP
    /\ LET src_reg == REG1(ir)
           pcoffset == PCOFFSET9(ir)
           dest_adress1 == Int16(pc + pcoffset)
       IN  \/ \E q \in routed(dest_adress1) :
                LET dest_adress2 == q.val
                IN  stores("sti", dest_adress2, regs[src_reg], q.tgt = "oob")
           \/ strays(dest_adress1) /\ fault(dest_adress1)

str ==
    /\ at = "exec"
    /\ OPCODE(ir) = STR_OP
    /\ LET src_reg == REG1(ir)
           base_reg == REG2(ir)
           pcoffset == PCOFFSET6(ir)
           dest_adress == Int16(regs[base_reg] + pcoffset)
       IN  stores("str", dest_adress, regs[src_reg], FALSE)

lea ==
    /\ at = "exec"
    /\ OPCODE(ir) = LEA_OP
    /\ LET dest_reg == REG1(ir)
           pcoffset == PCOFFSET9(ir)
           adr == Int16(pc + pcoffset)
       IN  /\ regs' = [regs EXCEPT ![dest_reg] = adr]
           /\ psr' = updatePSR_CC(adr)
    /\ plain("lea")
    /\ UNCHANGED <<mcr, memory, pc, ir, display>>

\* jsr that takes bit 11 = 0 as the JSRR form: PC from the register in bits 8:6
jsr_formBit ==
    /\ at = "exec"
    /\ OPCODE(ir) = JSR_OP
    /\ LET pcoffset == PCOFFSET11(ir)
       IN  /\ regs' = [regs EXCEPT ![7] = pc]
           /\ pc' = IF (ir \div 2048) % 2 = 1 THEN Int16(pc + pcoffset)
                    ELSE regs[REG2(ir)]
    /\ plain("jsr")
    /\ UNCHANGED <<mcr, memory, ir, psr, display>>

\* jsr without the assignment to regs[7]
jsr_noLink ==
    /\ at = "exec"
    /\ OPCODE(ir) = JSR_OP
    /\ LET pcoffset == PCOFFSET11(ir)
       IN  pc' = Int16(pc + pcoffset)
    /\ UNCHANGED <<mcr, memory, regs, ir, psr, display>>
    /\ plain("jsr")

jsr ==
    /\ at = "exec"
    /\ OPCODE(ir) = JSR_OP
    /\ LET pcoffset == PCOFFSET11(ir)
       IN  /\ regs' = [regs EXCEPT ![7] = pc]
           /\ pc' = Int16(pc + pcoffset)
    /\ plain("jsr")
    /\ UNCHANGED <<mcr, memory, ir, psr, display>>

ret ==
    /\ at = "exec"
    /\ OPCODE(ir) = RET_OP
    /\ pc' = regs[7]
    /\ UNCHANGED <<mcr, memory, regs, ir, psr, display>>
    /\ plain("ret")

trap ==
    /\ at = "exec"
    /\ OPCODE(ir) = TRAP_OP
    /\ LET vect == TRPVECT8(ir)
       IN  \/ /\ regs' = [regs EXCEPT ![7] = pc]
              /\ \E w \in MemRead(vect) : pc' = w
              /\ returns("trap")
              /\ lastIdx' = vect
              /\ stray' = (stray \/ vect \notin MemIndex)
              /\ UNCHANGED <<mcr, memory, ir, psr, display>>
              /\ UNCHANGED <<below, lastTgt, lastVal, nDDR, nPend, stored>>
           \/ vect \notin MemIndex /\ fault(vect)

(***************************************************************************)
(* The program.                                                            *)
(***************************************************************************)
Next ==
    \/ loadFile
    \/ usage
    \/ init
    \/ loopTop
    \/ fetch
    \/ addImm
    \/ addRegs
    \/ andImm
    \/ andRegs
    \/ br
    \/ ld
    \/ ldi
    \/ ldr
    \/ st
    \/ sti
    \/ str
    \/ lea
    \/ jsr
    \/ ret
    \/ trap
    \/ unrecognized

Spec == Init /\ [][Next]_vars

(***************************************************************************)
(* One cycle from the fetch on, for a machine state a program leaves: the  *)
(* word at the address about to be fetched, that address, the registers,   *)
(* the condition codes and mcr are drawn from sets holding the values at   *)
(* which 16-bit arithmetic wraps and sign extension changes a field.       *)
(***************************************************************************)
\* the instruction words: every handler, every form, the extreme offsets
StepWords ==
    { Int16(w) : w \in
        { nzp * 512 + off : nzp \in 0 .. 7, off \in {1, 255, 256} }   \* BR
        \cup
        {
          4769,     \* x12A1  ADD R1,R2,#1
          4799,     \* x12BF  ADD R1,R2,#-1
          4784,     \* x12B0  ADD R1,R2,#-16
          4783,     \* x12AF  ADD R1,R2,#15
          4739,     \* x1283  ADD R1,R2,R3
          5250,     \* x1482  ADD R2,R2,R2
          21183,    \* x52BF  AND R1,R2,#-1
          21167,    \* x52AF  AND R1,R2,#15
          21168,    \* x52B0  AND R1,R2,#-16
          21123,    \* x5283  AND R1,R2,R3
          21088,    \* x5260  AND R1,R1,#0
          37503,    \* x927F  NOT R1,R1
          8959,     \* x22FF  LD R1,#255
          8960,     \* x2300  LD R1,#-256
          9213,     \* x23FD  LD R1,#-3
          41472,    \* xA200  LDI R1,#0
          41981,    \* xA3FD  LDI R1,#-3
          25216,    \* x6280  LDR R1,R2,#0
          25248,    \* x62A0  LDR R1,R2,#-32
          13055,    \* x32FF  ST R1,#255
          13056,    \* x3300  ST R1,#-256
          13309,    \* x33FD  ST R1,#-3
          46079,    \* xB3FF  STI R1,#-1
          46077,    \* xB3FD  STI R1,#-3
          29312,    \* x7280  STR R1,R2,#0
          29343,    \* x729F  STR R1,R2,#31
          58111,    \* xE2FF  LEA R1,#255
          58112,    \* xE300  LEA R1,#-256
          58367,    \* xE3FF  LEA R1,#-1
          18433,    \* x4801  JSR #1
          19455,    \* x4BFF  JSR #1023
          19456,    \* x4C00  JSR #-1024
          16512,    \* x4080  JSRR R2 (bit 11 = 0)
          17407,    \* x43FF  opcode 4, bit 11 = 0, bits 10:0 = x3FF
          17408,    \* x4400  opcode 4, bit 11 = 0, bits 10:0 = x400
          49600,    \* xC1C0  RET
          49280,    \* xC080  JMP R2
          49152,    \* xC000  JMP R0
          49663,    \* xC1FF  opcode 12, low bits set
          61477,    \* xF025  TRAP x25
          61568,    \* xF080  TRAP x80
          32768,    \* x8000  RTI
          53248     \* xD000  reserved
        } }

\* the addresses fetched from: x0000, x3000, x7FFF and xFFFF
StepAddrs == {0, 12288, 32767, -1}

\* register contents: R1, R2, R3 and R7 (the other registers hold 0)
StepR1 == {0, 65, -1}
StepR2 == {0, 1, -1, 32767, -32768, 12288}
StepR3 == {1, -32768}
StepR7 == {12288, -1}

\* the condition codes updatePSR_CC leaves
StepCC == { updatePSR_CC(v) : v \in {-1, 0, 1} }

\* mcr with the machine running: as init left it, or holding the address DDR
StepMCR == {Int16(32768), DDR}

InitStep ==
    /\ \E a \in StepAddrs, w \in StepWords :
          /\ argv = << [start |-> a, words |-> <<w>>] >>
          /\ pc = a
          /\ memory = IF a \in MemIndex THEN MemSet(<< >>, a, w) ELSE << >>
    /\ argi = 1
    /\ mcr \in StepMCR
    /\ \E r1 \in StepR1, r2 \in StepR2, r3 \in StepR3, r7 \in StepR7 :
          regs = [r \in 0 .. REG_COUNT - 1 |->
                    IF r = 1 THEN r1 ELSE IF r = 2 THEN r2
                    ELSE IF r = 3 THEN r3 ELSE IF r = 7 THEN r7 ELSE 0]
    /\ ir = 0
    /\ psr \in StepCC
    /\ display = [status |-> Int16(32768), data |-> 0]
    /\ below = << >>
    /\ at = "fetch"
    /\ exitStatus = -1
    /\ out = << >>
    /\ cycles = 0
    /\ lastOp = "none"
    /\ lastTgt = "none"
    /\ lastVal = 0
    /\ lastIdx = 0
    /\ stray = FALSE
    /\ nDDR = 0
    /\ nPend = 0
    /\ stored = << >>
    /\ saved = {}

NextStep ==
    \/ fetch
    \/ addImm
    \/ addRegs
    \/ andImm
    \/ andRegs
    \/ br
    \/ ld
    \/ ldi
    \/ ldr
    \/ st
    \/ sti
    \/ str
    \/ lea
    \/ jsr
    \/ ret
    \/ trap
    \/ unrecognized

SpecStep == InitStep /\ [][NextStep]_vars

(***************************************************************************)
(* Vocabulary of the properties.                                           *)
(***************************************************************************)
StoreHandlers == {"st", "sti", "str"}
CCHandlers == {"addImm", "addRegs", "andImm", "andRegs", "ld", "ldi", "ldr", "lea"}

\* init has run: the process is in the loop or has left it
Started ==
    /\ Len(argv) >= 1
    /\ argi = Len(argv)
    /\ at \in {"loop", "fetch", "exec", "exit", "crash"}

\* the process has stopped after entering the loop
Stopped == Len(argv) >= 1 /\ argi = Len(argv) /\ at \in {"exit", "crash"}

\* the handler that just returned was a store routed to the device register t
JustStored(t) == at = "loop" /\ lastOp \in StoreHandlers /\ lastTgt = t

(***************************************************************************)
(* C1  Halt protocol.  A store routed to MCR of a word with bit 15 clear   *)
(* makes the loop exit at the next evaluation of the while condition,      *)
(* with nothing fetched or printed and no machine state changed; and the   *)
(* loop stops only for MCR bit 15 = 0 (status 0) or for an opcode without  *)
(* a case (status 1).                                                      *)
(***************************************************************************)
C1_HaltProtocol ==
    /\ (JustStored("mcr") /\ Bit(lastVal, 15) = 0) => MCR_POWER(mcr) = 0
    /\ (at = "exit" /\ exitStatus = 0) => MCR_POWER(mcr) = 0
    /\ Stopped =>
          \/ exitStatus = 0 /\ MCR_POWER(mcr) = 0
          \/ exitStatus = 1 /\ OPCODE(ir) \in {8, 13}

(***************************************************************************)
(* C2  Display handshake.  A store routed to DDR with register value c     *)
(* leaves display.data = c and display.status = 0x0000 with the loop still *)
(* powered; the next step is the top of the next cycle, which prints       *)
(* exactly c & 0xFF, restores display.status to 0x8000 and goes on to the  *)
(* fetch; nothing but the top of a cycle prints.                           *)
(***************************************************************************)
C2_DisplayHandshake ==
    [][ /\ JustStored("ddr") =>
             /\ display.data = lastVal
             /\ display.status = 0
             /\ MCR_POWER(mcr) = 1
             /\ at' = "fetch"
             /\ out' = Append(out, lastVal % 256)
             /\ display' = [data |-> lastVal, status |-> Int16(32768)]
        /\ at # "loop" => out' = out
      ]_vars

\* a DDR store of a word with high bits set has been drained as its low byte
C2_Witness ==
    /\ at = "fetch"
    /\ lastOp \in StoreHandlers
    /\ lastTgt = "ddr"
    /\ lastVal = -1
    /\ out = <<255>>
    /\ display = [data |-> -1, status |-> Int16(32768)]

(***************************************************************************)
(* C3  One character per DDR store, as stated, on the runs that keep every *)
(* index inside the array: the characters printed never outnumber the DDR  *)
(* stores executed and fall short of them by at most the pending one.      *)
(***************************************************************************)
C3_OnePerDDRStore ==
    ~stray => (Len(out) <= nDDR /\ nDDR <= Len(out) + 1)

(***************************************************************************)
(* C3 amended  One character per store that leaves display.status =        *)
(* 0x0000.  A character is pending only right after a store handler: one   *)
(* routed to DDR, or one that wrote the word 0x0000 to DSR (or, through an *)
(* index outside the array, onto display.status).  The characters printed  *)
(* never outnumber those stores and fall short by at most the pending one; *)
(* they are never fewer than the DDR stores minus the pending one.         *)
(***************************************************************************)
C3_OnePerPendingStore ==
    /\ Len(out) <= nPend
    /\ nPend <= Len(out) + 1
    /\ nDDR <= nPend
    /\ (Started /\ display.status = DISPLAY_SET) =>
          /\ lastOp \in StoreHandlers
          /\ nPend = Len(out) + 1
          /\ \/ lastTgt = "ddr"
             \/ lastTgt \in {"dsr", "oob"} /\ lastVal = 0

\* a character has been printed though no store was ever routed to DDR
C3_Witness ==
    /\ ~stray
    /\ nDDR = 0
    /\ Len(out) = 1
    /\ lastOp \in StoreHandlers
    /\ lastTgt = "dsr"

(***************************************************************************)
(* C4  CC exclusivity.  From the end of init on, exactly one of psr.n,     *)
(* psr.z, psr.p is 1; right after init it is Z.                            *)
(***************************************************************************)
C4_CCExclusive ==
    /\ Started => psr.n + psr.z + psr.p = 1
    /\ (at = "loop" /\ cycles = 0) => psr = [p |-> 0, n |-> 0, z |-> 1]

(***************************************************************************)
(* C5  CC correctness.  When ADD, AND, LD, LDI, LDR or LEA returns, the    *)
(* flags describe the word now in the destination register read as a       *)
(* signed 16-bit number: N iff negative, Z iff zero, P iff positive.       *)
(***************************************************************************)
C5_CCDescribesDR ==
    (at = "loop" /\ lastOp \in CCHandlers) =>
        LET v == regs[REG1(ir)]
        IN  /\ psr.n = (IF v < 0 THEN 1 ELSE 0)
            /\ psr.z = (IF v = 0 THEN 1 ELSE 0)
            /\ psr.p = (IF v > 0 THEN 1 ELSE 0)

\* a load from a device register has set N from the word 0x8000
C5_Witness ==
    /\ at = "loop"
    /\ lastOp \in {"ldi", "ldr"}
    /\ lastTgt \in {"dsr", "mcr"}
    /\ regs[REG1(ir)] = Int16(32768)
    /\ psr = [p |-> 0, n |-> 1, z |-> 0]

(***************************************************************************)
(* C6  CC frame.  ST, STI, STR, BR, JSR, RET and TRAP leave psr.n, psr.z   *)
(* and psr.p as they were, and so does the top of a cycle.                 *)
(***************************************************************************)
C6_CCFrame ==
    [][ \/ at = "loop"
        \/ /\ at = "exec"
           /\ OPCODE(ir) \in {ST_OP, STI_OP, STR_OP, BR_OP, JSR_OP, RET_OP, TRAP_OP}
        => psr' = psr
      ]_vars

(***************************************************************************)
(* C7  TRAP reads its vector at the zero-extended trapvect8: with v the    *)
(* bits 7:0 of the word as a number in 0..255, TRAP sets R7 to the         *)
(* incremented PC and PC to memory[v], an index in 0..255.                 *)
(***************************************************************************)
C7_TrapVectorZeroExtended ==
    [][ (at = "exec" /\ OPCODE(ir) = TRAP_OP) =>
            LET v == ir % 256
            IN  /\ at' = "loop"
                /\ regs' = [regs EXCEPT ![7] = pc]
                /\ lastIdx' = v
                /\ pc' = Mem(v)
      ]_vars

(***************************************************************************)
(* C8  NOT is a supported instruction: a word with opcode 9 runs not(),    *)
(* which complements SR1 into DR and sets the condition codes from it, and *)
(* the loop goes on.                                                       *)
(***************************************************************************)
C8_NotIsDispatched ==
    [][ (at = "exec" /\ OPCODE(ir) = 9) => not ]_vars

(***************************************************************************)
(* C9  Every memory[...] the program evaluates, in the fetch, the loads,   *)
(* the stores and the TRAP vector read, has its index in 0..65535.         *)
(***************************************************************************)
C9_IndexInsideArray ==
    lastIdx \in MemIndex /\ ~stray

(***************************************************************************)
(* C10  Termination outcomes.  The while condition found false ends the    *)
(* run with status 0 and nothing changed; a fetched opcode 8 or 13 ends it *)
(* with status 1 and no handler run: the fetch changed only ir and pc, and *)
(* the default case changes nothing of the machine and prints nothing to   *)
(* stdout.                                                                 *)
(***************************************************************************)
C10_TerminationOutcomes ==
    [][ /\ (at = "loop" /\ MCR_POWER(mcr) = 0) =>
              /\ at' = "exit"
              /\ exitStatus' = 0
              /\ UNCHANGED <<machine, out>>
        /\ (at = "fetch" /\ at' = "exec") =>
              /\ pc' = Int16(pc + 1)
              /\ UNCHANGED <<regs, psr, memory, mcr, display, out>>
        /\ (at = "exec" /\ OPCODE(ir) \in {8, 13}) =>
              /\ at' = "exit"
              /\ exitStatus' = 1
              /\ UNCHANGED <<machine, out, lastOp>>
        /\ (at = "exit" /\ exitStatus = 0) => MCR_POWER(mcr) = 0
      ]_vars

\* the run ended with status 1 on opcode 13, in a cycle whose top drained the
\* character made pending by the handler of the cycle before
C10_Witness ==
    /\ at = "exit"
    /\ exitStatus = 1
    /\ OPCODE(ir) = 13
    /\ lastOp = "sti"
    /\ lastTgt = "ddr"
    /\ out = <<0>>
    /\ display.status = Int16(32768)

(***************************************************************************)
(* C11  16-bit wrap and sign extension in ADD and AND.  With operand the   *)
(* register SR2 when bit 5 of the word is 0 and otherwise bits 4:0 read as *)
(* a number in -16..15, ADD leaves (SR1 + operand) mod 2^16 in DR and AND  *)
(* leaves the bitwise conjunction of SR1 and operand; the other registers  *)
(* stay, and N is set exactly when bit 15 of the result is 1.              *)
(***************************************************************************)
C11_AluWrapSignExt ==
    [][ (at = "exec" /\ OPCODE(ir) \in {1, 5}) =>
            LET dr == (ir \div 512) % 8
                sr1 == regs[(ir \div 64) % 8]
                low5 == ir % 32
                operand == IF (ir \div 32) % 2 = 0 THEN regs[ir % 8]
                           ELSE IF low5 >= 16 THEN low5 - 32 ELSE low5
            IN  /\ at' = "loop"
                /\ operand \in -32768 .. 32767
                /\ (ir \div 32) % 2 = 1 => operand \in -16 .. 15
                /\ regs'[dr] \in -32768 .. 32767
                /\ OPCODE(ir) = 1 =>
                      regs'[dr] % 65536 = (sr1 + operand) % 65536
                /\ OPCODE(ir) = 5 =>
                      \A k \in 0 .. 15 :
                          Bit(regs'[dr], k) = Bit(sr1, k) * Bit(operand, k)
                /\ \A r \in 0 .. REG_COUNT - 1 : r # dr => regs'[r] = regs[r]
                /\ psr'.n = Bit(regs'[dr], 15)
                /\ psr'.n + psr'.z + psr'.p = 1
      ]_vars

\* ADD R1, R2, #1 with R2 = 0x7FFF has left 0x8000 in R1 and N set
C11_Witness ==
    /\ at = "loop"
    /\ lastOp = "addImm"
    /\ ir = 4769
    /\ regs[2] = 32767
    /\ regs[1] = -32768
    /\ psr = [p |-> 0, n |-> 1, z |-> 0]

\* the access a load or store handler has just made was at the 16-bit address u
AccessedAt(u) ==
    IF u = 65028 THEN lastTgt' = "dsr"
    ELSE IF u = 65030 THEN lastTgt' = "ddr"
    ELSE IF u = 65534 THEN lastTgt' = "mcr"
    ELSE lastTgt' \in {"ram", "oob"} /\ lastIdx' % 65536 = u

\* the words a routed read at the 16-bit address u may yield
WordsAt(u) ==
    IF u = 65028 THEN {display.status}
    ELSE IF u = 65030 THEN {display.data}
    ELSE IF u = 65534 THEN {mcr}
    ELSE IF u < 32768 THEN {Mem(u)}
    ELSE OobValues

(***************************************************************************)
(* C12  PC-relative base.  The fetch from address a leaves PC = a + 1 mod  *)
(* 2^16; LD, ST and LEA use the address (a + 1 + offset9) mod 2^16, LDI    *)
(* and STI read their pointer there, a BR leaves PC there or at a + 1, JSR *)
(* leaves PC at (a + 1 + offset11) mod 2^16, the offsets being the 9-bit   *)
(* and 11-bit fields sign-extended; and the instructions that do not write *)
(* PC (ADD, AND, the loads, the stores, LEA) leave it at a + 1.            *)
(***************************************************************************)
C12_PCRelativeBase ==
    [][ /\ (at = "fetch" /\ at' = "exec") =>
              /\ pc' \in -32768 .. 32767
              /\ pc' % 65536 = (pc + 1) % 65536
        /\ (at = "exec" /\ at' = "loop") =>
              LET op == OPCODE(ir)
                  f9 == ir % 512
                  f11 == ir % 2048
                  off9 == IF f9 >= 256 THEN f9 - 512 ELSE f9
                  off11 == IF f11 >= 1024 THEN f11 - 2048 ELSE f11
                  ea9 == (pc + off9) % 65536
                  ea11 == (pc + off11) % 65536
              IN  /\ op = 14 => regs'[(ir \div 512) % 8] % 65536 = ea9
                  /\ op = 0 => pc' % 65536 \in {ea9, pc % 65536}
                  /\ op = 4 => pc' % 65536 = ea11 /\ regs'[7] = pc
                  /\ op \in {2, 3} => AccessedAt(ea9)
                  /\ op \in {10, 11} =>
                        \E q \in WordsAt(ea9) : AccessedAt(q % 65536)
                  /\ op \in {1, 5, 2, 10, 6, 3, 11, 7, 14} => pc' = pc
      ]_vars

\* the 16-bit addresses of the three device registers
DeviceAddrs == {65028, 65030, 65534}

\* the word the router yields for a read at the 16-bit address u: the device
\* register, or else the RAM cell
RoutedWord(u) ==
    IF u = 65028 THEN display.status
    ELSE IF u = 65030 THEN display.data
    ELSE IF u = 65534 THEN mcr
    ELSE Mem(u)

\* the effect the router gives a write of v at the 16-bit address u: on the
\* device register (a write to DDR also clearing the status), or else on
\* the RAM cell
RoutedWrite(u, v) ==
    IF u = 65028
    THEN display' = [display EXCEPT !.status = v] /\ UNCHANGED <<mcr, memory>>
    ELSE IF u = 65030
    THEN display' = [data |-> v, status |-> 0] /\ UNCHANGED <<mcr, memory>>
    ELSE IF u = 65534
    THEN mcr' = v /\ UNCHANGED <<display, memory>>
    ELSE memory' = MemSet(memory, u, v) /\ UNCHANGED <<display, mcr>>

(***************************************************************************)
(* C13  Two-level routing.  LD, LDR, ST and STR make their one access      *)
(* through the router: at DSR, DDR or MCR it is display.status,            *)
(* display.data or mcr, at every other address the RAM cell.  LDI and STI  *)
(* read their pointer through the router at PC + offset9 and then make the *)
(* final access through the router at the pointer.                         *)
(***************************************************************************)
C13_TwoLevelRouting ==
    [][ (at = "exec" /\ OPCODE(ir) \in {2, 10, 6, 3, 11, 7}) =>
            LET op == OPCODE(ir)
                r == (ir \div 512) % 8
                base == regs[(ir \div 64) % 8]
                f9 == ir % 512
                f6 == ir % 64
                off9 == IF f9 >= 256 THEN f9 - 512 ELSE f9
                off6 == IF f6 >= 32 THEN f6 - 64 ELSE f6
                first == IF op \in {6, 7} THEN (base + off6) % 65536
                         ELSE (pc + off9) % 65536
                final == IF op \in {10, 11} THEN RoutedWord(first) % 65536
                         ELSE first
            IN  /\ at' = "loop"
                /\ op \in {2, 10, 6} => regs'[r] = RoutedWord(final)
                /\ op \in {3, 11, 7} => RoutedWrite(final, regs[r])
      ]_vars

\* the 16-bit address a load or store word in ir names: PC + offset9, or
\* BaseR + offset6 for LDR and STR
FirstAddr ==
    LET f9 == ir % 512
        f6 == ir % 64
        off9 == IF f9 >= 256 THEN f9 - 512 ELSE f9
        off6 == IF f6 >= 32 THEN f6 - 64 ELSE f6
    IN  IF OPCODE(ir) \in {6, 7} THEN (regs[(ir \div 64) % 8] + off6) % 65536
        ELSE (pc + off9) % 65536

\* the 16-bit address of its final access: for LDI and STI the pointer
FinalAddr ==
    IF OPCODE(ir) \in {10, 11} THEN RoutedWord(FirstAddr) % 65536 ELSE FirstAddr

(***************************************************************************)
(* C14  Round trip on RAM.  A store of v routed to an address A that is    *)
(* none of DSR, DDR, MCR puts v in the RAM cell A and changes no other RAM *)
(* cell and none of display.status, display.data, mcr; and a load routed   *)
(* to such an A returns the word the latest store to A wrote.              *)
(***************************************************************************)
C14_RamRoundTrip ==
    [][ /\ ( /\ at = "exec"
             /\ OPCODE(ir) \in {3, 11, 7}
             /\ FinalAddr \notin DeviceAddrs ) =>
                /\ at' = "loop"
                /\ memory' = MemSet(memory, FinalAddr, regs[(ir \div 512) % 8])
                /\ display' = display
                /\ mcr' = mcr
        /\ ( /\ at = "exec"
             /\ OPCODE(ir) \in {2, 10, 6}
             /\ FinalAddr \notin DeviceAddrs
             /\ FinalAddr \in DOMAIN stored ) =>
                /\ at' = "loop"
                /\ regs'[(ir \div 512) % 8] = stored[FinalAddr]
      ]_vars

(***************************************************************************)
(* C15  JSR/RET round trip.  A JSR fetched from address a leaves R7 =      *)
(* a + 1 and PC = a + 1 + offset11 (mod 2^16); and while R7 has not been   *)
(* written since, a RET leaves PC = a + 1 and R7 still a + 1.              *)
(***************************************************************************)
C15_JsrRetRoundTrip ==
    /\ (at = "loop" /\ lastOp = "jsr") =>
          LET f11 == ir % 2048
              off11 == IF f11 >= 1024 THEN f11 - 2048 ELSE f11
          IN  /\ saved = {regs[7]}
              /\ pc % 65536 = (regs[7] + off11) % 65536
    /\ (at = "loop" /\ lastOp = "ret" /\ saved # {}) =>
          /\ saved = {pc}
          /\ regs[7] = pc

\* the JSR at x3000 has been returned from: PC and R7 are x3001
C15_Witness ==
    /\ at = "loop"
    /\ lastOp = "ret"
    /\ saved = {12289}
    /\ pc = 12289
    /\ regs[7] = 12289

(***************************************************************************)
(* C16  BR semantics.  With n, z, p the bits 11, 10, 9 of the word, BR     *)
(* leaves PC + offset9 (mod 2^16) in PC if n and N, or z and Z, or p and P *)
(* are both 1, and leaves PC as the fetch left it otherwise; a word with   *)
(* nzp = 000 never branches, a word with nzp = 111 always does; BR changes *)
(* nothing but PC.                                                         *)
(***************************************************************************)
C16_BranchSemantics ==
    [][ (at = "exec" /\ OPCODE(ir) = 0) =>
            LET n == (ir \div 2048) % 2
                z == (ir \div 1024) % 2
                p == (ir \div 512) % 2
                f9 == ir % 512
                off9 == IF f9 >= 256 THEN f9 - 512 ELSE f9
                target == (pc + off9) % 65536
                taken == \/ n = 1 /\ psr.n = 1
                         \/ z = 1 /\ psr.z = 1
                         \/ p = 1 /\ psr.p = 1
            IN  /\ at' = "loop"
                /\ pc' \in -32768 .. 32767
                /\ taken => pc' % 65536 = target
                /\ ~taken => pc' = pc
                /\ (n = 0 /\ z = 0 /\ p = 0) => pc' = pc
                /\ (n = 1 /\ z = 1 /\ p = 1) => pc' % 65536 = target
                /\ UNCHANGED <<mcr, memory, regs, ir, psr, display, out>>
      ]_vars

(***************************************************************************)
(* C17  Loading.  When init is reached every file has been loaded; PC is   *)
(* the start address of the last file; for every file and every word of it *)
(* whose address no later file covers, the word the fetch reads at that    *)
(* address, (start + i) mod 2^16, is that word; and init leaves PC and the *)
(* array as they are.                                                      *)
(***************************************************************************)
C17_LoadedWordsFetched ==
    [][ /\ (at = "load" /\ Len(argv) >= 1) => at' \in {"load", "loop"}
        /\ (at = "load" /\ at' = "loop") =>
              /\ pc' = pc
              /\ memory' = memory
              /\ argi = Len(argv)
              /\ pc = argv[Len(argv)].start
              /\ \A k \in 1 .. Len(argv) :
                    \A i \in 1 .. Len(argv[k].words) :
                        LET A == (argv[k].start + i - 1) % 65536
                            covered ==
                                \E k2 \in (k + 1) .. Len(argv) :
                                    \E i2 \in 1 .. Len(argv[k2].words) :
                                        (argv[k2].start + i2 - 1) % 65536 = A
                        IN  ~covered => MemRead(Int16(A)) = {argv[k].words[i]}
      ]_vars

(***************************************************************************)
(* C18  Display status two-valued, as stated: display.status is 0x0000 or  *)
(* 0x8000 in every state, on the runs that keep every index inside the     *)
(* array too.                                                              *)
(***************************************************************************)
C18_StatusTwoValued ==
    ~stray => display.status \in {0, -32768}

(***************************************************************************)
(* C18 amended  The writers of display.status.  init sets it to 0x8000;    *)
(* the top of a cycle changes it only from 0x0000 to 0x8000, when it       *)
(* prints; a store routed to DDR sets it to 0x0000; a store routed to DSR  *)
(* sets it to the stored word, whatever that is; nothing else changes it   *)
(* but a store through an index outside the array that lands on it.  So it *)
(* is 0x0000 or 0x8000 unless a store has written another word to it.      *)
(***************************************************************************)
C18_StatusWriters ==
    [][ /\ (at = "load" /\ at' = "loop") => display'.status = -32768
        /\ at = "loop" =>
              display'.status =
                  IF at' = "fetch" /\ display.status = 0 THEN -32768
                  ELSE display.status
        /\ at = "fetch" => display'.status = display.status
        /\ at = "exec" =>
              \/ display'.status = display.status
              \/ /\ at' = "loop"
                 /\ lastOp' \in StoreHandlers
                 /\ \/ lastTgt' = "ddr" /\ display'.status = 0
                    \/ lastTgt' \in {"dsr", "oob"} /\ display'.status = lastVal'
        /\ (at = "exec" /\ at' = "loop" /\ lastOp' \in StoreHandlers) =>
              /\ lastTgt' = "ddr" => display'.status = 0
              /\ lastTgt' = "dsr" => display'.status = lastVal'
              /\ lastTgt' \in {"ram", "mcr"} => display'.status = display.status
      ]_vars

\* a store routed to DSR, every index inside the array, has left the status
\* 0xFFFF
C18_Witness ==
    /\ ~stray
    /\ at = "loop"
    /\ lastOp \in StoreHandlers
    /\ lastTgt = "dsr"
    /\ lastVal = -1
    /\ display.status = -1

(***************************************************************************)
(* C19  No character is lost at termination.  When the loop has been left, *)
(* by the while condition found false or by the default case of the        *)
(* switch, display.status is not 0x0000 and every store that made a        *)
(* character pending, the stores routed to DDR among them, has had its     *)
(* character printed.                                                      *)
(***************************************************************************)
C19_NothingPendingAtExit ==
    (Started /\ at = "exit") =>
        /\ display.status # 0
        /\ nPend = Len(out)
        /\ nDDR <= Len(out)

\* a clean halt right after the cycle that printed the character of a DDR store
C19_Witness ==
    /\ at = "exit"
    /\ exitStatus = 0
    /\ lastOp \in StoreHandlers
    /\ lastTgt = "mcr"
    /\ nDDR = 1
    /\ Len(out) = 1
    /\ display.status = -32768

(***************************************************************************)
(* C20  Opcodes 4 and 12 are decoded by the top four bits alone.  A step   *)
(* that executes a word with opcode 4, whatever its bit 11, leaves the     *)
(* incremented PC in R7 and PC + sign_ext(bits 10:0) (mod 2^16) in PC; a   *)
(* step that executes a word with opcode 12, whatever its bits 8:6, leaves *)
(* R7 in PC and the registers as they were.  Both go on to the next cycle: *)
(* neither returns through the default case of the switch.                 *)
(***************************************************************************)
C20_FormBitsIgnored ==
    [][ (at = "exec" /\ (ir \div 4096) % 16 \in {4, 12}) =>
           LET f11 == ir % 2048
               off11 == IF f11 >= 1024 THEN f11 - 2048 ELSE f11
           IN  /\ at' = "loop"
               /\ exitStatus' = exitStatus
               /\ ir' = ir
               /\ (ir \div 4096) % 16 = 4 =>
                      /\ regs' = [regs EXCEPT ![7] = pc]
                      /\ pc' % 65536 = (pc + off11) % 65536
               /\ (ir \div 4096) % 16 = 12 =>
                      /\ pc' = regs[7]
                      /\ regs' = regs
      ]_vars

\* x4080, the JSRR R2 encoding, fetched from x3000 has run as JSR #128: R7 is
\* x3001 and PC is x3081, not the content of R2
C20_Witness ==
    /\ at = "loop"
    /\ lastOp = "jsr"
    /\ ir = 16512
    /\ regs[7] = 12289
    /\ pc = 12417
    /\ regs[2] # pc

====
